---------------------------- MODULE Spec2Model ----------------------------
(***************************************************************************)
(* Model of the easy_maa backend core (src-tauri/src/lib.rs): the shared   *)
(* AppState (bounded log buffer, status table), the privileged command     *)
(* executor (direct / sudo -n / pkexec) and the three action handlers.     *)
(*                                                                         *)
(* Strings are sequences of word tokens, so that substring search, trim    *)
(* and format! are computed and not assumed.  Option<T> is <<>> (None) or  *)
(* <<v>> (Some(v)).                                                        *)
(***************************************************************************)
EXTENDS Integers, Sequences, FiniteSets, TLC

VARIABLES
  logs,          \* StateInner.logs : VecDeque<LogEntry>
  statuses,      \* StateInner.statuses : HashMap<SoftwareKind, SoftwareStatus>
  clock,         \* what current_timestamp_ms() returns now
  pushed,        \* history: every entry push_back'ed, in lock order
  logEvents,     \* payloads emitted on backend://log since Init, in emit order
  statusEvents,  \* payloads emitted on backend://status, in emit order
  callers,       \* threads calling the AppState methods directly
  calls,         \* number of AppState method calls the callers started
  env,           \* the process environment: euid, SENDKEY, the loaded AppConfig
  inv,           \* the invocations of the three Tauri commands
  invoked,       \* number of command invocations started
  tasks          \* the notification tasks spawned on the async runtime

vars == <<logs, statuses, clock, pushed, logEvents, statusEvents, callers, calls,
          env, inv, invoked, tasks>>

\* what the callers of SpecLog and SpecStatus leave alone
actionVars == <<env, inv, invoked, tasks>>
\* what the command handlers leave alone
callerVars == <<callers, calls>>

-----------------------------------------------------------------------------
(* Bounds of the model *)

\* push_log calls started by the callers of SpecLog
MaxPushes == 2
\* update_status calls started by the callers of SpecStatus
MaxUpdates == 2
\* command invocations started in Spec
MaxInvocations == 2
\* command invocations started in SpecSeq
MaxRuns == 1
\* the wall clock stops advancing here
MaxClock == 1

-----------------------------------------------------------------------------
(* Constants and types of lib.rs *)

MAX_MEMORY_LOGS == 200

LogLevel == {"Info", "Warn", "Error"}
SoftwareKind == {"Emulator", "Maa"}
SoftwarePhase == {"Unknown", "Idle", "Starting", "Running", "Stopping", "Stopped", "Error"}

None == <<>>
Some(v) == <<v>>

\* LogEntry::new, given the clock reading
LogEntryNew(level, message, now) ==
  [timestamp_ms |-> now, level |-> level, message |-> message]

\* SoftwareStatus::with_phase, given the clock reading
WithPhase(kind, phase, now) ==
  [kind |-> kind, phase |-> phase, last_message |-> None, last_updated_ms |-> now]

current_timestamp_ms == clock

-----------------------------------------------------------------------------
(* AppState: the code under the mutex *)

\* AppState::new: the status map after the two inserts
NewStatuses(now) ==
  [k \in {"Emulator", "Maa"} |->
     IF k = "Emulator" THEN WithPhase("Emulator", "Stopped", now)
                       ELSE WithPhase("Maa", "Idle", now)]

\* a plausible bug: the entry is put at the front of the deque (push_front)
PushBackAtFront(buf, entry) ==
  LET grown == <<entry>> \o buf
  IN  IF Len(grown) > MAX_MEMORY_LOGS THEN SubSeq(grown, 1, Len(grown) - 1) ELSE grown

\* a plausible bug: the overflowing buffer drops its newest entry (pop_back)
PushBackDropNewest(buf, entry) ==
  LET grown == Append(buf, entry)
  IN  IF Len(grown) > MAX_MEMORY_LOGS THEN SubSeq(grown, 1, Len(grown) - 1) ELSE grown

\* a plausible bug: the buffer is never trimmed
PushBackNoEvict(buf, entry) == Append(buf, entry)

\* push_log, lines 236-239: push_back, then pop_front when over capacity
PushBack(buf, entry) ==
  LET grown == Append(buf, entry)
  IN  IF Len(grown) > MAX_MEMORY_LOGS THEN Tail(grown) ELSE grown

\* logs_snapshot: guard.logs.iter().cloned().collect()
LogsSnapshot(buf) == [i \in 1..Len(buf) |-> buf[i]]

\* a plausible bug: last_message is overwritten even when no message is given
StatusEntryClearsMessage(table, kind, phase, message, now) ==
  LET cur == IF kind \in DOMAIN table THEN table[kind]
             ELSE WithPhase(kind, "Unknown", now)
  IN  [cur EXCEPT !.phase = phase, !.last_updated_ms = now, !.last_message = message]

\* update_status, lines 268-276: the entry of kind after the update
StatusEntry(table, kind, phase, message, now) ==
  LET cur == IF kind \in DOMAIN table THEN table[kind]
             ELSE WithPhase(kind, "Unknown", now)
  IN  [cur EXCEPT !.phase = phase,
                  !.last_updated_ms = now,
                  !.last_message = IF message # None THEN message ELSE @]

\* a plausible bug: the map is rebuilt with the updated entry only
StatusesAfterForgetsOthers(table, kind, phase, message, now) ==
  [k \in {kind} |-> StatusEntry(table, kind, phase, message, now)]

\* update_status: the map after the update (entry().or_insert_with())
StatusesAfter(table, kind, phase, message, now) ==
  [k \in DOMAIN table \cup {kind} |->
     IF k = kind THEN StatusEntry(table, kind, phase, message, now) ELSE table[k]]

\* statuses_snapshot: guard.statuses.values().cloned().collect(), as a set
\* (the order of a HashMap's values is unspecified)
StatusesSnapshot(table) == {table[k] : k \in DOMAIN table}

-----------------------------------------------------------------------------
(* Threads calling push_log and update_status directly.  push_log reads    *)
(* the clock before it takes the lock and emits after it released it;      *)
(* update_status reads the clock under the lock and emits after the drop.  *)

Callers == {"t1", "t2"}

IdleCaller ==
  [pc |-> "idle", entry |-> None, kind |-> None, phase |-> None,
   message |-> None, snapshot |-> None, prev |-> None,
   writes |-> 0]  \* history: the writes that came before the snapshot held

\* push_log line 233: let entry = LogEntry::new(level, message)
CallPushLog(c, level, message) ==
  /\ callers[c].pc = "idle"
  /\ calls < MaxPushes
  /\ callers' = [callers EXCEPT ![c] =
        [IdleCaller EXCEPT !.pc = "push_lock",
                           !.entry = Some(LogEntryNew(level, message, current_timestamp_ms))]]
  /\ calls' = calls + 1
  /\ UNCHANGED <<logs, statuses, clock, pushed, logEvents, statusEvents, actionVars>>

\* push_log lines 234-240: the block holding the lock
PushLogLocked(c) ==
  /\ callers[c].pc = "push_lock"
  /\ logs' = PushBack(logs, callers[c].entry[1])
  /\ pushed' = Append(pushed, callers[c].entry[1])
  /\ callers' = [callers EXCEPT ![c].pc = "push_emit"]
  /\ UNCHANGED <<statuses, clock, logEvents, statusEvents, calls, actionVars>>

\* what AppHandle::emit returns: Ok(()), or Err when the event could not be
\* delivered
EmitResults == {"Ok", "Err"}

\* a plausible bug: the entry is taken back when its emit failed
PushLogEmitTakesBack(c, emitted) ==
  /\ callers[c].pc = "push_emit"
  /\ logEvents' = Append(logEvents, callers[c].entry[1])
  /\ logs' = IF emitted = "Err" /\ logs # <<>> THEN SubSeq(logs, 1, Len(logs) - 1) ELSE logs
  /\ callers' = [callers EXCEPT ![c] = IdleCaller]
  /\ UNCHANGED <<statuses, clock, pushed, statusEvents, calls, actionVars>>

\* push_log line 241: let _ = app.emit(LOG_EVENT, entry); the emit is called
\* once and what it returned is dropped
PushLogEmit(c, emitted) ==
  /\ callers[c].pc = "push_emit"
  /\ emitted \in EmitResults
  /\ logEvents' = Append(logEvents, callers[c].entry[1])
  /\ callers' = [callers EXCEPT ![c] = IdleCaller]
  /\ UNCHANGED <<logs, statuses, clock, pushed, statusEvents, calls, actionVars>>

\* update_status lines 267-278: lock, update, clone the entry, drop the lock
CallUpdateStatus(c, kind, phase, message) ==
  /\ callers[c].pc = "idle"
  /\ calls < MaxUpdates
  /\ statuses' = StatusesAfter(statuses, kind, phase, message, current_timestamp_ms)
  /\ callers' = [callers EXCEPT ![c] =
        [IdleCaller EXCEPT !.pc = "status_emit",
                           !.kind = Some(kind), !.phase = Some(phase),
                           !.message = message,
                           !.prev = IF kind \in DOMAIN statuses
                                    THEN Some(statuses[kind]) ELSE None,
                           !.snapshot = Some(statuses'[kind])]]
  /\ calls' = calls + 1
  /\ UNCHANGED <<logs, clock, pushed, logEvents, statusEvents, actionVars>>

\* update_status lines 280-281: emit the snapshot, drop what the emit
\* returned, and return the snapshot
UpdateStatusEmit(c, emitted) ==
  /\ callers[c].pc = "status_emit"
  /\ emitted \in EmitResults
  /\ statusEvents' = Append(statusEvents, callers[c].snapshot[1])
  /\ callers' = [callers EXCEPT ![c] = IdleCaller]
  /\ UNCHANGED <<logs, statuses, clock, pushed, logEvents, calls, actionVars>>

\* history: the update_status calls that have written the table so far
StatusWrites ==
  Len(statusEvents) + Cardinality({c \in Callers : callers[c].pc = "status_emit"})

\* a plausible bug: the snapshot takes the entries out of the buffer (drain)
FetchLogsDrains(c) ==
  /\ callers[c].pc = "idle"
  /\ callers' = [callers EXCEPT ![c] =
        [IdleCaller EXCEPT !.pc = "logs_fetched",
                           !.snapshot = Some(LogsSnapshot(logs)),
                           !.writes = Len(pushed)]]
  /\ logs' = <<>>
  /\ UNCHANGED <<statuses, clock, pushed, logEvents, statusEvents, calls, actionVars>>

\* fetch_logs, lines 420-422: state.logs_snapshot()
FetchLogs(c) ==
  /\ callers[c].pc = "idle"
  /\ callers' = [callers EXCEPT ![c] =
        [IdleCaller EXCEPT !.pc = "logs_fetched",
                           !.snapshot = Some(LogsSnapshot(logs)),
                           !.writes = Len(pushed)]]
  /\ UNCHANGED <<logs, statuses, clock, pushed, logEvents, statusEvents, calls, actionVars>>

\* fetch_status, lines 412-414: state.statuses_snapshot()
FetchStatus(c) ==
  /\ callers[c].pc = "idle"
  /\ callers' = [callers EXCEPT ![c] =
        [IdleCaller EXCEPT !.pc = "status_fetched",
                           !.snapshot = Some(StatusesSnapshot(statuses)),
                           !.writes = StatusWrites]]
  /\ UNCHANGED <<logs, statuses, clock, pushed, logEvents, statusEvents, calls, actionVars>>

\* the query returns its snapshot to the frontend
FetchReturn(c) ==
  /\ callers[c].pc \in {"logs_fetched", "status_fetched"}
  /\ callers' = [callers EXCEPT ![c] = IdleCaller]
  /\ UNCHANGED <<logs, statuses, clock, pushed, logEvents, statusEvents, calls, actionVars>>

\* the wall clock advances (SystemTime::now in current_timestamp_ms)
Tick ==
  /\ clock < MaxClock
  /\ clock' = clock + 1
  /\ UNCHANGED <<logs, statuses, pushed, logEvents, statusEvents, callers, calls, actionVars>>

-----------------------------------------------------------------------------
(* Strings: sequences of tokens; a word, a blank or a line end is a token  *)

WhiteSpace == {" ", "\n"}
BadByte == "<0xFF>"
Replacement == "<U+FFFD>"

RECURSIVE JoinArgs(_)
\* args.join(" "): the strings of args with one blank between neighbours
JoinArgs(args) ==
  IF args = <<>> THEN <<>>
  ELSE IF Len(args) = 1 THEN args[1]
  ELSE args[1] \o <<" ">> \o JoinArgs(Tail(args))

\* a string literal, written as its words
Text(words) == JoinArgs([i \in DOMAIN words |-> <<words[i]>>])

\* str::contains: needle occurs as a contiguous part of s
Contains(s, needle) ==
  \E i \in 1..(Len(s) - Len(needle) + 1) : SubSeq(s, i, i + Len(needle) - 1) = needle

RECURSIVE TrimStart(_)
TrimStart(s) == IF s # <<>> /\ Head(s) \in WhiteSpace THEN TrimStart(Tail(s)) ELSE s
RECURSIVE TrimEnd(_)
TrimEnd(s) ==
  IF s # <<>> /\ s[Len(s)] \in WhiteSpace THEN TrimEnd(SubSeq(s, 1, Len(s) - 1)) ELSE s
\* str::trim
Trim(s) == TrimEnd(TrimStart(s))

\* String::from_utf8_lossy: invalid bytes become U+FFFD
FromUtf8Lossy(bytes) ==
  [i \in DOMAIN bytes |-> IF bytes[i] = BadByte THEN Replacement ELSE bytes[i]]

-----------------------------------------------------------------------------
(* The executor: run_configured_command and execute_command_internal *)

\* std::process::Output; code is ExitStatus::code(), None for a child that a
\* signal ended
Output(code, stdout, stderr) == [code |-> code, stdout |-> stdout, stderr |-> stderr]

\* ExitStatus::success()
StatusSuccess(output) == output.code = Some(0)

\* a plausible bug: a child without an exit code is reported with code 0
ExitCodeZeroWithoutCode(output) == IF output.code = None THEN 0 ELSE output.code[1]

\* output.status.code().unwrap_or(-1), line 553
ExitCode(output) == IF output.code = None THEN -1 ELSE output.code[1]

\* a plausible bug: the euid is not consulted
NeedsEscalationIgnoresRoot(spec, root) == spec.requires_sudo

\* line 527: requires_sudo && !is_root()
NeedsEscalation(spec, root) == spec.requires_sudo /\ ~root

\* a plausible bug: the exit status of stage 1 is not consulted
PasswordRequiredIgnoresStatus(result) ==
  Contains(FromUtf8Lossy(result.stderr), <<"password">>)

\* lines 534-535: stage 1 failed and its stderr holds a password marker
PasswordRequired(result) ==
  LET stderr_str == FromUtf8Lossy(result.stderr)
  IN  /\ ~StatusSuccess(result)
      /\ \/ Contains(stderr_str, <<"password">>)
         \/ Contains(stderr_str, Text(<<"a", "password", "is", "required">>))

\* What spawning a child gave: it ran to its end (target: whether the
\* configured program itself was run by it), or Command::output() returned
\* Err and "false" was run for its status, or "false" could not be run either.
Ran(output, target) == [how |-> "ran", target |-> target, output |-> output]
NoSpawn == [how |-> "nospawn", target |-> FALSE, output |-> Output(None, <<>>, <<>>)]
NoSpawnNoFalse == [how |-> "panic", target |-> FALSE, output |-> Output(None, <<>>, <<>>)]

\* lines 590-596: the Output that execute_command_internal returns
ExecuteCommandInternal(child) ==
  IF child.how = "ran" THEN child.output
  ELSE Output(Some(1), <<>>,
              Text(<<"Failed", "to", "execute", "command:", "os", "error">>))

\* the children one call of execute_command_internal(program, args) starts,
\* in order: the command of line 575, and "false" of line 592 when it failed
ChildrenOf(program, args, child) ==
  IF child.how = "ran" THEN <<[program |-> program, args |-> args, spawned |-> TRUE]>>
  ELSE <<[program |-> program, args |-> args, spawned |-> FALSE],
         [program |-> <<"false">>, args |-> <<>>, spawned |-> child.how = "nospawn"]>>

\* lines 529-530: the arguments of sudo
SudoArgs(spec) == <<<<"-n">>, spec.program>> \o spec.args

\* lines 537-538: the arguments of pkexec
PkexecArgs(spec) == <<spec.program>> \o spec.args

\* lines 511-515 and 440-444: program, or program and args joined by blanks
CommandDisplay(spec) ==
  IF spec.args = <<>> THEN spec.program ELSE spec.program \o <<" ">> \o JoinArgs(spec.args)

\* lines 551-563: the CommandOutcome built from the joined Output
Outcome(spec, output) ==
  [label |-> spec.label,
   command |-> CommandDisplay(spec),
   exit_code |-> ExitCode(output),
   success |-> StatusSuccess(output),
   stdout |-> Trim(FromUtf8Lossy(output.stdout)),
   stderr |-> Trim(FromUtf8Lossy(output.stderr))]

\* line 548: the text of a JoinError
CrashText == Text(<<"worker", "thread", "crashed:", "task", "panicked">>)

-----------------------------------------------------------------------------
(* ActionKind and the texts of the handlers.  The Chinese texts of the     *)
(* source are written as English words of the same meaning.                *)

ActionKind == {"EmulatorStart", "EmulatorStop", "MaaStartup"}

\* ActionKind::target
Target(action) == IF action = "MaaStartup" THEN "Maa" ELSE "Emulator"

\* ActionKind::start_phase
StartPhase(action) ==
  CASE action = "EmulatorStart" -> "Starting"
    [] action = "EmulatorStop" -> "Stopping"
    [] action = "MaaStartup" -> "Running"

\* a plausible bug: success_phase gives the phase the action started with
SuccessPhaseKeepsStart(action) == StartPhase(action)

\* a plausible bug: the two emulator arms of success_phase are swapped
SuccessPhaseSwapped(action) ==
  CASE action = "EmulatorStart" -> "Stopped"
    [] action = "EmulatorStop" -> "Running"
    [] action = "MaaStartup" -> "Idle"

\* ActionKind::success_phase
SuccessPhase(action) ==
  CASE action = "EmulatorStart" -> "Running"
    [] action = "EmulatorStop" -> "Stopped"
    [] action = "MaaStartup" -> "Idle"

\* the message of the first update_status: line 450, and line 381 for MAA
StartMessage(action, label) ==
  IF action = "MaaStartup" THEN Text(<<"preparing", "MAA", "task">>)
  ELSE label \o <<" ", "executing">>

\* the message of the first push_log: line 456, and line 382 for MAA
StartLogMessage(action, spec) ==
  IF action = "MaaStartup" THEN <<"begin", " ">> \o spec.label
  ELSE <<"exec", " ">> \o spec.label \o <<" ", "=>", " ">> \o CommandDisplay(spec)

\* the success_message argument (lines 358, 368), and line 389 for MAA
SuccessMessage(action) ==
  CASE action = "EmulatorStart" -> Text(<<"emulator", "started">>)
    [] action = "EmulatorStop" -> Text(<<"emulator", "stopped">>)
    [] action = "MaaStartup" -> Text(<<"MAA", "task", "finished">>)

\* lines 465 and 390: format!("{} done", label)
DoneLogMessage(label) == label \o <<" ", "done">>

\* lines 476 and 394: format!("{} failed, exit code {}", label, exit_code)
FailureMessage(label, exit_code) ==
  label \o <<" ", "failed,", " ", "exit", " ", "code", " ", ToString(exit_code)>>

\* lines 468, 482: format!("[STDOUT] {}", stdout); line 484 when it is empty
StdoutSection(stdout) == <<"[STDOUT]", " ">> \o stdout
StdoutPlaceholder == <<"[STDOUT]", " ", "(no output)">>
\* lines 471, 489: format!("[STDERR] {}", stderr); line 491 when it is empty
StderrSection(stderr) == <<"[STDERR]", " ">> \o stderr
StderrPlaceholder == <<"[STDERR]", " ", "(no output)">>

-----------------------------------------------------------------------------
(* AppState methods as the handlers call them: one call is one step *)

\* update_status, lines 260-282: the update and the emit of its snapshot
update_status(kind, phase, message) ==
  /\ statuses' = StatusesAfter(statuses, kind, phase, message, current_timestamp_ms)
  /\ statusEvents' = Append(statusEvents, statuses'[kind])

\* push_log, lines 232-242: the new entry, the push and the emit
push_log(level, message) ==
  LET entry == LogEntryNew(level, message, current_timestamp_ms)
  IN  /\ logs' = PushBack(logs, entry)
      /\ pushed' = Append(pushed, entry)
      /\ logEvents' = Append(logEvents, entry)

-----------------------------------------------------------------------------
(* The command handlers: start_emulator and stop_emulator run               *)
(* execute_simple_action, run_maa_startup has its own body.                 *)

\* the invocations in flight at one time are told apart by a slot
Procs == {1, 2}

IdleInv ==
  [pc |-> "idle", action |-> None, spec |-> None,
   children |-> <<>>,     \* the children started by this invocation
   targetRuns |-> 0,      \* how often the configured program itself ran
   sudoRanTarget |-> FALSE, \* sudo let the configured program run
   stage1 |-> None,       \* the Output of the sudo stage
   stage2 |-> None,       \* the Output of the pkexec stage
   output |-> None,       \* what the blocking closure returned
   crashed |-> FALSE,     \* the blocking closure panicked
   outcome |-> None,      \* the CommandOutcome of run_configured_command
   result |-> None,       \* the Result the handler returns
   wrote |-> <<>>,        \* the update_status calls of this invocation
   logged |-> <<>>,       \* the push_log calls of this invocation
   notified |-> <<>>]     \* the spawn_notification calls of this invocation

Ok(v) == [ok |-> TRUE, value |-> v]
Err(e) == [ok |-> FALSE, value |-> e]

Action(p) == inv[p].action[1]
CmdSpec(p) == inv[p].spec[1]
Simple(p) == Action(p) # "MaaStartup"

\* the part of inv'[p] every step of p writes
Step(p, pc, wrote, logged, notified) ==
  inv' = [inv EXCEPT ![p].pc = pc,
                     ![p].wrote = @ \o wrote,
                     ![p].logged = @ \o logged,
                     ![p].notified = @ \o notified]

\* one update_status call of p, then pc
StatusStep(p, phase, message, pc) ==
  /\ update_status(Target(Action(p)), phase, Some(message))
  /\ Step(p, pc, <<[kind |-> Target(Action(p)), phase |-> phase, message |-> message]>>,
          <<>>, <<>>)
  /\ UNCHANGED <<logs, pushed, logEvents, clock, env, invoked, tasks, callerVars>>

\* one push_log call of p, then pc
LogStep(p, level, message, pc) ==
  /\ push_log(level, message)
  /\ Step(p, pc, <<>>, <<[level |-> level, message |-> message]>>, <<>>)
  /\ UNCHANGED <<statuses, statusEvents, clock, env, invoked, tasks, callerVars>>

\* spawn_notification, lines 631-646: a task is spawned when SENDKEY is set
NotifyStep(p, text, desp, pc) ==
  /\ tasks' = IF env.sendkey
              THEN Append(tasks, [text |-> text, desp |-> desp, pc |-> "sending", by |-> p])
              ELSE tasks
  /\ Step(p, pc, <<>>, <<>>, <<desp>>)
  /\ UNCHANGED <<logs, statuses, pushed, logEvents, statusEvents, clock, env, invoked,
                 callerVars>>

\* the frontend invokes one of the three commands: lines 355-358, 365-368, 375-380;
\* the invocation takes the lowest free slot
Invoke(p, action, limit) ==
  /\ inv[p].pc \in {"idle", "done"}
  /\ \A q \in Procs : q < p => inv[q].pc \notin {"idle", "done"}
  /\ invoked < limit
  /\ inv' = [inv EXCEPT ![p] = [IdleInv EXCEPT !.pc = "start_status",
                                               !.action = Some(action),
                                               !.spec = Some(env.config[action])]]
  /\ invoked' = invoked + 1
  /\ UNCHANGED <<logs, statuses, pushed, logEvents, statusEvents, clock, env, tasks,
                 callerVars>>

\* lines 446-451 and 381
StartStatus(p) ==
  /\ inv[p].pc = "start_status"
  /\ StatusStep(p, StartPhase(Action(p)), StartMessage(Action(p), CmdSpec(p).label),
                "start_log")

\* lines 453-457 and 382
StartLog(p) ==
  /\ inv[p].pc = "start_log"
  /\ LogStep(p, "Info", StartLogMessage(Action(p), CmdSpec(p)),
             IF Simple(p) THEN "exec" ELSE "notify_start")

\* line 384
NotifyStart(p) ==
  /\ inv[p].pc = "notify_start"
  /\ NotifyStep(p, <<"archMAA">>, Text(<<"MAA", "service", "starting">>), "exec")

\* what the steps of the blocking closure leave alone
ExecFrame ==
  UNCHANGED <<logs, statuses, pushed, logEvents, statusEvents, clock, env, invoked,
              tasks, callerVars>>

\* a plausible bug: the handler returns Ok(outcome) whenever there is an
\* outcome, also after it took the failure branch
JoinedOkOnAnyOutcome(p, panic, output) ==
  IF panic
  THEN [pc |-> "err_status", outcome |-> None, result |-> Some(Err(CrashText))]
  ELSE LET outcome == Outcome(CmdSpec(p), output)
       IN  [pc |-> IF outcome.success THEN "ok_status" ELSE "fail_status",
            outcome |-> Some(outcome),
            result |-> Some(Ok(outcome))]

\* a plausible bug: the JoinError is returned at once (await?), and the
\* Err branch of the handler is not run
JoinedPropagatesCrash(p, panic, output) ==
  IF panic
  THEN [pc |-> "done", outcome |-> None, result |-> Some(Err(CrashText))]
  ELSE LET outcome == Outcome(CmdSpec(p), output)
       IN  [pc |-> IF outcome.success THEN "ok_status" ELSE "fail_status",
            outcome |-> Some(outcome),
            result |-> Some(IF outcome.success THEN Ok(outcome)
                            ELSE Err(FailureMessage(CmdSpec(p).label, outcome.exit_code)))]

\* lines 547-563 and the match of lines 460-462, 474, 497 (386-388, 393, 400):
\* the closure ended with output, or panicked; the await gives Err for a
\* JoinError and else the CommandOutcome, and the handler takes its branch
Joined(p, panic, output) ==
  IF panic
  THEN [pc |-> "err_status", outcome |-> None, result |-> Some(Err(CrashText))]
  ELSE LET outcome == Outcome(CmdSpec(p), output)
       IN  [pc |-> IF outcome.success THEN "ok_status" ELSE "fail_status",
            outcome |-> Some(outcome),
            result |-> Some(IF outcome.success THEN Ok(outcome)
                            ELSE Err(FailureMessage(CmdSpec(p).label, outcome.exit_code)))]

\* line 544: the program is run directly
ExecDirect(p, child) ==
  /\ inv[p].pc = "exec"
  /\ ~NeedsEscalation(CmdSpec(p), env.root)
  /\ LET result == ExecuteCommandInternal(child)
         panic == child.how = "panic"
         j == Joined(p, panic, result)
     IN  inv' = [inv EXCEPT
           ![p].pc = j.pc,
           ![p].children = @ \o ChildrenOf(CmdSpec(p).program, CmdSpec(p).args, child),
           ![p].targetRuns = @ + (IF child.target THEN 1 ELSE 0),
           ![p].crashed = panic,
           ![p].output = IF panic THEN None ELSE Some(result),
           ![p].outcome = j.outcome,
           ![p].result = j.result]
  /\ ExecFrame

\* lines 529-541: stage 1, sudo -n program args, and the choice of stage 2
ExecSudo(p, child) ==
  /\ inv[p].pc = "exec"
  /\ NeedsEscalation(CmdSpec(p), env.root)
  /\ LET result == ExecuteCommandInternal(child)
         panic == child.how = "panic"
         again == ~panic /\ PasswordRequired(result)
         j == Joined(p, panic, result)
     IN  inv' = [inv EXCEPT
           ![p].pc = IF again THEN "pkexec" ELSE j.pc,
           ![p].children = @ \o ChildrenOf(<<"sudo">>, SudoArgs(CmdSpec(p)), child),
           ![p].targetRuns = @ + (IF child.target THEN 1 ELSE 0),
           ![p].sudoRanTarget = child.target,
           ![p].crashed = panic,
           ![p].stage1 = IF panic THEN None ELSE Some(result),
           ![p].output = IF panic \/ again THEN None ELSE Some(result),
           ![p].outcome = IF again THEN None ELSE j.outcome,
           ![p].result = IF again THEN None ELSE j.result]
  /\ ExecFrame

\* lines 537-539: stage 2, pkexec program args; its Output is returned
ExecPkexec(p, child) ==
  /\ inv[p].pc = "pkexec"
  /\ LET result == ExecuteCommandInternal(child)
         panic == child.how = "panic"
         j == Joined(p, panic, result)
     IN  inv' = [inv EXCEPT
           ![p].pc = j.pc,
           ![p].children = @ \o ChildrenOf(<<"pkexec">>, PkexecArgs(CmdSpec(p)), child),
           ![p].targetRuns = @ + (IF child.target THEN 1 ELSE 0),
           ![p].crashed = panic,
           ![p].stage2 = IF panic THEN None ELSE Some(result),
           ![p].output = IF panic THEN None ELSE Some(result),
           ![p].outcome = j.outcome,
           ![p].result = j.result]
  /\ ExecFrame

\* lines 464 and 389
SuccessStatus(p) ==
  /\ inv[p].pc = "ok_status"
  /\ StatusStep(p, SuccessPhase(Action(p)), SuccessMessage(Action(p)), "ok_log")

\* where the success path goes after the stdout test of line 467
AfterSuccessStdout(p) ==
  IF inv[p].outcome[1].stderr # <<>> THEN "ok_stderr" ELSE "done"

\* lines 465 and 390
SuccessLog(p) ==
  /\ inv[p].pc = "ok_log"
  /\ LogStep(p, "Info", DoneLogMessage(CmdSpec(p).label),
             IF ~Simple(p) THEN "notify_done"
             ELSE IF inv[p].outcome[1].stdout # <<>> THEN "ok_stdout"
             ELSE AfterSuccessStdout(p))

\* lines 467-469
SuccessStdout(p) ==
  /\ inv[p].pc = "ok_stdout"
  /\ LogStep(p, "Info", StdoutSection(inv[p].outcome[1].stdout), AfterSuccessStdout(p))

\* lines 470-472
SuccessStderr(p) ==
  /\ inv[p].pc = "ok_stderr"
  /\ LogStep(p, "Warn", StderrSection(inv[p].outcome[1].stderr), "done")

\* line 391
NotifyDone(p) ==
  /\ inv[p].pc = "notify_done"
  /\ NotifyStep(p, <<"archMAA">>, Text(<<"MAA", "run", "finished">>), "done")

\* a plausible bug: the failure branch logs and returns without update_status
FailureStatusSkipped(p) ==
  /\ inv[p].pc = "fail_status"
  /\ Step(p, "fail_log", <<>>, <<>>, <<>>)
  /\ UNCHANGED <<logs, statuses, pushed, logEvents, statusEvents, clock, env, invoked,
                 tasks, callerVars>>

\* lines 476-477 and 394-395
FailureStatus(p) ==
  /\ inv[p].pc = "fail_status"
  /\ StatusStep(p, "Error", inv[p].result[1].value, "fail_log")

\* a plausible bug: run_maa_startup also notifies after a failed command
FailureLogThenNotifies(p) ==
  /\ inv[p].pc = "fail_log"
  /\ LogStep(p, "Error", inv[p].result[1].value,
             IF Simple(p) THEN "fail_stdout" ELSE "notify_done")

\* lines 478 and 396
FailureLog(p) ==
  /\ inv[p].pc = "fail_log"
  /\ LogStep(p, "Error", inv[p].result[1].value,
             IF Simple(p) THEN "fail_stdout" ELSE "done")

\* lines 481-485
FailureStdout(p) ==
  /\ inv[p].pc = "fail_stdout"
  /\ LogStep(p, "Error",
             IF inv[p].outcome[1].stdout # <<>>
             THEN StdoutSection(inv[p].outcome[1].stdout) ELSE StdoutPlaceholder,
             "fail_stderr")

\* lines 488-492
FailureStderr(p) ==
  /\ inv[p].pc = "fail_stderr"
  /\ LogStep(p, "Error",
             IF inv[p].outcome[1].stderr # <<>>
             THEN StderrSection(inv[p].outcome[1].stderr) ELSE StderrPlaceholder,
             "done")

\* lines 499 and 401
ErrorStatus(p) ==
  /\ inv[p].pc = "err_status"
  /\ StatusStep(p, "Error", inv[p].result[1].value, "err_log")

\* lines 500 and 402
ErrorLog(p) ==
  /\ inv[p].pc = "err_log"
  /\ LogStep(p, "Error", inv[p].result[1].value, "done")

\* a plausible bug: a failed notification marks the MAA component as failed
NotificationTaskMarksError(i, sent) ==
  /\ tasks[i].pc = "sending"
  /\ IF sent
     THEN /\ push_log("Info", <<"push", " ", "sent:", " ">> \o tasks[i].desp)
          /\ UNCHANGED <<statuses, statusEvents>>
     ELSE /\ push_log("Warn", Text(<<"push", "failed:", "request", "error">>))
          /\ update_status("Maa", "Error", Some(Text(<<"push", "failed:", "request", "error">>)))
  /\ tasks' = [tasks EXCEPT ![i].pc = "done"]
  /\ UNCHANGED <<clock, env, inv, invoked, callerVars>>

\* lines 637-644: send_server_chan ended with Ok or Err, and the task logs it
NotificationTask(i, sent) ==
  /\ tasks[i].pc = "sending"
  /\ IF sent
     THEN push_log("Info", <<"push", " ", "sent:", " ">> \o tasks[i].desp)
     ELSE push_log("Warn", Text(<<"push", "failed:", "request", "error">>))
  /\ tasks' = [tasks EXCEPT ![i].pc = "done"]
  /\ UNCHANGED <<statuses, statusEvents, clock, env, inv, invoked, callerVars>>

-----------------------------------------------------------------------------
(* Inputs *)

Messages == {<<"m1">>, <<"m2">>}
PushLevels == {"Info", "Error"}
UpdatePhases == {"Starting", "Running", "Error"}
UpdateMessages == {None, Some(<<"m1">>)}

\* A buffer that n earlier push_log calls left behind (n <= MAX_MEMORY_LOGS,
\* so nothing was evicted yet): the calls cycle through levels and messages.
EarlierEntry(i) ==
  LogEntryNew(IF i % 3 = 0 THEN "Info" ELSE IF i % 3 = 1 THEN "Warn" ELSE "Error",
              IF i % 2 = 0 THEN <<"m1">> ELSE <<"m2">>, 0)
EarlierLogs(n) == [i \in 1..n |-> EarlierEntry(i)]
EarlierSizes == {0, MAX_MEMORY_LOGS - 1}

\* What the configured program may do when it runs
OkQuiet == Output(Some(0), <<>>, <<>>)
OkLoud ==
  Output(Some(0), <<"started", "\n">>,
         Text(<<"warning:", "password", "cache", "is", "stale">>) \o <<"\n">>)
FailQuiet == Output(Some(1), <<"\n">>, <<>>)
FailLoud ==
  Output(Some(1), <<"partial", BadByte>>,
         Text(<<"Error:", "no", "such", "container">>) \o <<"\n">>)
FailPassword == Output(Some(1), <<>>, Text(<<"db:", "password", "rejected">>))
Killed == Output(None, <<>>, <<>>)
TargetOutputs == {OkQuiet, OkLoud, FailQuiet, FailLoud, FailPassword, Killed}

\* What sudo -n and pkexec may do when they refuse to run the program
SudoNeedsPassword ==
  Output(Some(1), <<>>, Text(<<"sudo:", "a", "password", "is", "required">>) \o <<"\n">>)
SudoDenied ==
  Output(Some(1), <<>>, Text(<<"sudo:", "user", "is", "not", "in", "sudoers">>))
PkexecDismissed ==
  Output(Some(126), <<>>, Text(<<"Error", "executing", "command:", "Request", "dismissed">>))

TargetRuns(outputs) == {Ran(o, TRUE) : o \in outputs}
SpawnFailures == {NoSpawn, NoSpawnNoFalse}

\* every behaviour of one child, for the one-at-a-time runs of SpecSeq
DirectChildren == TargetRuns(TargetOutputs) \cup SpawnFailures
SudoChildren ==
  TargetRuns(TargetOutputs) \cup {Ran(SudoNeedsPassword, FALSE), Ran(SudoDenied, FALSE)}
    \cup SpawnFailures
PkexecChildren ==
  TargetRuns(TargetOutputs) \cup {Ran(PkexecDismissed, FALSE)} \cup SpawnFailures

\* fewer behaviours, for the concurrent runs of Spec
FewDirectChildren == TargetRuns({OkLoud}) \cup {NoSpawnNoFalse}
FewSudoChildren == TargetRuns({OkQuiet}) \cup {Ran(SudoNeedsPassword, FALSE)}
FewPkexecChildren == {Ran(PkexecDismissed, FALSE)}

\* CommandConfig values.  AppConfig::default (config.rs lines 121-153), with
\* EMULATOR_NEEDS_SUDO unset or set, and a configuration file that leaves
\* emulator_start at CommandConfig::default (lines 56-67) and asks sudo for MAA
Command(label, program, args, requires_sudo) ==
  [label |-> label, program |-> program, args |-> args, requires_sudo |-> requires_sudo]
DefaultConfig(emulator_requires_sudo) ==
  [a \in ActionKind |->
     CASE a = "EmulatorStart" ->
            Command(<<"start-emulator">>, <<"podman">>,
                    <<<<"start">>, <<"maa-container">>>>, emulator_requires_sudo)
       [] a = "EmulatorStop" ->
            Command(<<"stop-emulator">>, <<"podman">>,
                    <<<<"stop">>, <<"maa-container">>>>, emulator_requires_sudo)
       [] a = "MaaStartup" ->
            Command(<<"MAA-startup">>, <<"maa">>, <<<<"startup">>, <<"Official">>>>, FALSE)]
FileConfig ==
  [a \in ActionKind |->
     CASE a = "EmulatorStart" -> Command(<<"custom">>, <<"true">>, <<>>, FALSE)
       [] a = "EmulatorStop" ->
            Command(<<"stop-emulator">>, <<"docker">>, <<<<"stop">>, <<"c1">>>>, TRUE)
       [] a = "MaaStartup" ->
            Command(<<"MAA-startup">>, <<"maa">>, <<<<"startup">>, <<"Official">>>>, TRUE)]

Environment(root, sendkey, config) ==
  [root |-> root, sendkey |-> sendkey, config |-> config]
Environments ==
  {Environment(FALSE, FALSE, DefaultConfig(FALSE)),
   Environment(FALSE, TRUE, DefaultConfig(TRUE)),
   Environment(TRUE, FALSE, DefaultConfig(TRUE)),
   Environment(FALSE, TRUE, FileConfig)}
\* for the concurrent runs of Spec: an unprivileged user, no SENDKEY, sudo
\* for stop_emulator and run_maa_startup
FewEnvironments == {Environment(FALSE, FALSE, FileConfig)}
PlainEnvironment == [root |-> FALSE, sendkey |-> FALSE, config |-> DefaultConfig(FALSE)]

-----------------------------------------------------------------------------
(* Specifications *)

\* AppState::new, lines 200-220, with no command invoked yet
InitState ==
  /\ logs = <<>>
  /\ statuses = NewStatuses(0)
  /\ clock = 0
  /\ pushed = <<>>
  /\ logEvents = <<>>
  /\ statusEvents = <<>>
  /\ callers = [c \in Callers |-> IdleCaller]
  /\ calls = 0
  /\ inv = [p \in Procs |-> IdleInv]
  /\ invoked = 0
  /\ tasks = <<>>

\* the steps of a handler that take no input
HandlerStep(p) ==
  \/ StartStatus(p)
  \/ StartLog(p)
  \/ NotifyStart(p)
  \/ SuccessStatus(p)
  \/ SuccessLog(p)
  \/ SuccessStdout(p)
  \/ SuccessStderr(p)
  \/ NotifyDone(p)
  \/ FailureStatus(p)
  \/ FailureLog(p)
  \/ FailureStdout(p)
  \/ FailureStderr(p)
  \/ ErrorStatus(p)
  \/ ErrorLog(p)

\* The program: the frontend invokes the commands, also concurrently
Init ==
  /\ InitState
  /\ env \in FewEnvironments

Next ==
  \/ \E p \in Procs, action \in ActionKind : Invoke(p, action, MaxInvocations)
  \/ \E p \in Procs : HandlerStep(p)
  \/ \E p \in Procs, child \in FewDirectChildren : ExecDirect(p, child)
  \/ \E p \in Procs, child \in FewSudoChildren : ExecSudo(p, child)
  \/ \E p \in Procs, child \in FewPkexecChildren : ExecPkexec(p, child)

Spec == Init /\ [][Next]_vars

\* The program with one command in flight at a time, and every behaviour of
\* the children
NextSeq ==
  \/ \E action \in ActionKind : Invoke(1, action, MaxRuns)
  \/ HandlerStep(1)
  \/ \E child \in DirectChildren : ExecDirect(1, child)
  \/ \E child \in SudoChildren : ExecSudo(1, child)
  \/ \E child \in PkexecChildren : ExecPkexec(1, child)
  \/ \E i \in DOMAIN tasks, sent \in BOOLEAN : NotificationTask(i, sent)

InitSeq ==
  /\ InitState
  /\ env \in Environments

SpecSeq == InitSeq /\ [][NextSeq]_vars

\* the log buffer under concurrent push_log calls, from a fresh buffer or
\* from one that earlier calls filled
InitLog ==
  /\ \E n \in EarlierSizes :
        /\ logs = EarlierLogs(n)
        /\ pushed = EarlierLogs(n)
  /\ logEvents = <<>>
  /\ statuses = NewStatuses(0)
  /\ clock = 0
  /\ statusEvents = <<>>
  /\ callers = [c \in Callers |-> IdleCaller]
  /\ calls = 0
  /\ env = PlainEnvironment
  /\ inv = [p \in Procs |-> IdleInv]
  /\ invoked = 0
  /\ tasks = <<>>

NextLog ==
  \/ \E c \in Callers, level \in PushLevels, message \in Messages :
        CallPushLog(c, level, message)
  \/ \E c \in Callers : PushLogLocked(c)
  \/ \E c \in Callers, emitted \in EmitResults : PushLogEmit(c, emitted)
  \/ Tick

SpecLog == InitLog /\ [][NextLog]_vars

\* the status table under concurrent update_status calls
InitStatus ==
  /\ InitState
  /\ env = PlainEnvironment

NextStatus ==
  \/ \E c \in Callers, kind \in SoftwareKind, phase \in UpdatePhases,
         message \in UpdateMessages :
        CallUpdateStatus(c, kind, phase, message)
  \/ \E c \in Callers, emitted \in EmitResults : UpdateStatusEmit(c, emitted)
  \/ Tick

SpecStatus == InitStatus /\ [][NextStatus]_vars

\* AppState under concurrent push_log, update_status, fetch_logs and
\* fetch_status calls
NextState ==
  \/ \E c \in Callers, level \in PushLevels, message \in Messages :
        CallPushLog(c, level, message)
  \/ \E c \in Callers : PushLogLocked(c)
  \/ \E c \in Callers, emitted \in EmitResults : PushLogEmit(c, emitted)
  \/ \E c \in Callers, kind \in SoftwareKind, phase \in UpdatePhases,
         message \in UpdateMessages :
        CallUpdateStatus(c, kind, phase, message)
  \/ \E c \in Callers, emitted \in EmitResults : UpdateStatusEmit(c, emitted)
  \/ \E c \in Callers : FetchLogs(c)
  \/ \E c \in Callers : FetchStatus(c)
  \/ \E c \in Callers : FetchReturn(c)

SpecState == InitStatus /\ [][NextState]_vars

\* The program under two concurrent commands with SENDKEY set: the
\* notification tasks of run_maa_startup run beside the handlers; no command
\* needs sudo, and each slot takes one invocation
TasksEnvironment == Environment(FALSE, TRUE, DefaultConfig(FALSE))
TasksChildren == TargetRuns({OkLoud, FailLoud}) \cup {NoSpawnNoFalse}

InitTasks ==
  /\ InitState
  /\ env = TasksEnvironment

NextTasks ==
  \/ \E p \in Procs, action \in ActionKind :
        inv[p].pc = "idle" /\ Invoke(p, action, MaxInvocations)
  \/ \E p \in Procs : HandlerStep(p)
  \/ \E p \in Procs, child \in TasksChildren : ExecDirect(p, child)
  \/ \E i \in DOMAIN tasks, sent \in BOOLEAN : NotificationTask(i, sent)

SpecTasks == InitTasks /\ [][NextTasks]_vars

\* The program under two concurrent commands, scheduled fairly.  The child
\* that the blocking closure of p waits for exits (or could not be spawned),
\* and the closure goes on: lines 527-545
ChildExits(p) ==
  \/ \E child \in FewDirectChildren : ExecDirect(p, child)
  \/ \E child \in FewSudoChildren : ExecSudo(p, child)
  \/ \E child \in FewPkexecChildren : ExecPkexec(p, child)

NextLive ==
  \/ \E p \in Procs, action \in ActionKind :
        inv[p].pc = "idle" /\ Invoke(p, action, MaxInvocations)
  \/ \E p \in Procs : HandlerStep(p)
  \/ \E p \in Procs : ChildExits(p)

\* the runtime goes on with every handler that can take a step, and every
\* child process exits
Fairness ==
  \A p \in Procs : WF_vars(HandlerStep(p)) /\ WF_vars(ChildExits(p))

SpecLive == Init /\ [][NextLive]_vars /\ Fairness

-----------------------------------------------------------------------------
(* Properties *)

Min(a, b) == IF a < b THEN a ELSE b
LastN(s, n) == SubSeq(s, Len(s) - n + 1, Len(s))

\* the blocking closure of p has ended and the await has returned
PastExec(p) ==
  inv[p].pc \in {"ok_status", "ok_log", "ok_stdout", "ok_stderr", "notify_done",
                 "fail_status", "fail_log", "fail_stdout", "fail_stderr",
                 "err_status", "err_log", "done"}

\* p is between its start-phase update and its final status update
InFlight(p) ==
  inv[p].pc \in {"start_log", "notify_start", "exec", "pkexec",
                 "ok_status", "fail_status", "err_status"}

HasChild(p, program) ==
  \E i \in DOMAIN inv[p].children : inv[p].children[i].program = program

\* stage 1 of p failed and its stderr holds the word password
SudoFailedOnPassword(p) ==
  /\ inv[p].stage1 # None
  /\ ~StatusSuccess(inv[p].stage1[1])
  /\ Contains(FromUtf8Lossy(inv[p].stage1[1].stderr), <<"password">>)

\* C1: in every reachable state, whatever the interleaving of the push_log
\* calls, the log buffer holds at most 200 entries.
C1_LogBufferBounded == Len(logs) <= MAX_MEMORY_LOGS

\* C1 witness: the buffer is full and a push has evicted an entry
C1_FullAfterEviction == Len(logs) = MAX_MEMORY_LOGS /\ Len(pushed) > MAX_MEMORY_LOGS

\* C2: after n pushes, in the order in which they took the lock,
\* logs_snapshot returns the last min(n, 200) pushed entries, oldest first.
C2_SnapshotIsLastPushed ==
  LogsSnapshot(logs) = LastN(pushed, Min(Len(pushed), MAX_MEMORY_LOGS))

\* C2 witness: two concurrent push_log calls have both pushed, none has
\* emitted yet, and the buffer has evicted
C2_ConcurrentPushesEvicted ==
  /\ \A c \in Callers : callers[c].pc = "push_emit"
  /\ Len(pushed) > MAX_MEMORY_LOGS

\* C3: when sudo is required, the caller is not root and the sudo stage
\* fails with a stderr that holds "password", pkexec is invoked exactly once,
\* with the same program and args, and its outcome is what the executor
\* returns.
C3_PasswordCaseReturnsPkexec ==
  \A p \in Procs :
    (PastExec(p) /\ SudoFailedOnPassword(p)) =>
      /\ Cardinality({i \in DOMAIN inv[p].children :
                        inv[p].children[i].program = <<"pkexec">>}) = 1
      /\ \A i \in DOMAIN inv[p].children :
           inv[p].children[i].program = <<"pkexec">> =>
             inv[p].children[i].args = <<CmdSpec(p).program>> \o CmdSpec(p).args
      /\ inv[p].stage2 # None
      /\ inv[p].outcome = Some(Outcome(CmdSpec(p), inv[p].stage2[1]))

\* C4: when the sudo stage succeeds, even with a stderr that holds
\* "password", or fails with a stderr that does not hold it, pkexec is never
\* invoked and the outcome of stage 1 is returned unchanged.
C4_NoFallbackWithoutPassword ==
  \A p \in Procs :
    (PastExec(p) /\ inv[p].stage1 # None /\ ~SudoFailedOnPassword(p)) =>
      /\ ~HasChild(p, <<"pkexec">>)
      /\ inv[p].stage2 = None
      /\ inv[p].output = inv[p].stage1
      /\ inv[p].outcome = Some(Outcome(CmdSpec(p), inv[p].stage1[1]))

\* C4 witness: sudo ran the program, which exited 0 with "password" in its
\* stderr, and the handler went on
C4_SudoSucceededMentioningPassword ==
  \E p \in Procs :
    /\ PastExec(p)
    /\ inv[p].stage1 # None
    /\ StatusSuccess(inv[p].stage1[1])
    /\ Contains(FromUtf8Lossy(inv[p].stage1[1].stderr), <<"password">>)

\* C5: pkexec is started only when sudo refused before it ran the program;
\* when sudo ran the program and the program itself failed, pkexec is not
\* invoked and the program does not run a second time.
C5_FallbackOnlyAfterSudoRefusal ==
  \A p \in Procs :
    /\ HasChild(p, <<"pkexec">>) => ~inv[p].sudoRanTarget
    /\ inv[p].targetRuns <= 1

C7_FailureTrail ==
  \A p \in Procs :
    (inv[p].pc = "done" /\ inv[p].outcome # None /\ ~inv[p].outcome[1].success) =>
      LET outcome == inv[p].outcome[1]
          message == inv[p].result[1].value
          wrote == inv[p].wrote
          logged == inv[p].logged
      IN  /\ ~inv[p].result[1].ok
          /\ Contains(message, <<ToString(outcome.exit_code)>>)
          /\ wrote[Len(wrote)].phase = "Error"
          /\ wrote[Len(wrote)].message = message
          /\ statuses[wrote[Len(wrote)].kind].phase = "Error"
          /\ statuses[wrote[Len(wrote)].kind].last_message = Some(message)
          /\ \E i \in DOMAIN logged :
               /\ i + 2 <= Len(logged)
               /\ logged[i] = [level |-> "Error", message |-> message]
               /\ logged[i + 1] =
                    [level |-> "Error",
                     message |-> IF outcome.stdout = <<>>
                                 THEN <<"[STDOUT]", " ", "(no output)">>
                                 ELSE <<"[STDOUT]", " ">> \o outcome.stdout]
               /\ logged[i + 2] =
                    [level |-> "Error",
                     message |-> IF outcome.stderr = <<>>
                                 THEN <<"[STDERR]", " ", "(no output)">>
                                 ELSE <<"[STDERR]", " ">> \o outcome.stderr]

\* the mapping of C8: action -> (target, start phase, success phase)
C8_Mapping ==
  [a \in ActionKind |->
     CASE a = "EmulatorStart" -> [kind |-> "Emulator", start |-> "Starting", success |-> "Running"]
       [] a = "EmulatorStop" -> [kind |-> "Emulator", start |-> "Stopping", success |-> "Stopped"]
       [] a = "MaaStartup" -> [kind |-> "Maa", start |-> "Running", success |-> "Idle"]]

\* with one command at a time: from its first update to the end of the
\* command the target has the start phase, and after a success it has the
\* success phase, which is the second and last update of the action
C8_Phases ==
  \A p \in Procs :
    inv[p].action # None =>
      LET m == C8_Mapping[Action(p)]
          phases == [i \in DOMAIN inv[p].wrote |-> inv[p].wrote[i].phase]
      IN  /\ InFlight(p) => (statuses[m.kind].phase = m.start /\ phases = <<m.start>>)
          /\ (PastExec(p) /\ ~InFlight(p) /\ inv[p].result[1].ok) =>
               (statuses[m.kind].phase = m.success /\ phases = <<m.start, m.success>>)

\* a step changes the status entry of a component only as a step of an
\* action that targets it
C8_Frame ==
  \A k \in SoftwareKind :
    (k \notin DOMAIN statuses \/ statuses'[k] # statuses[k]) =>
      \E p \in Procs :
        /\ inv[p].action # None
        /\ inv'[p] # inv[p]
        /\ C8_Mapping[Action(p)].kind = k

\* C8: each action first sets its target's phase to its start phase and,
\* when the command succeeds, then to its success phase, by the fixed mapping;
\* an action never writes the status entry of the other component.
C8_StartThenSuccessPhase == [](C8_Phases) /\ [][C8_Frame]_vars

\* C8 witness: stop_emulator has returned Ok
C8_StopSucceeded ==
  \E p \in Procs :
    inv[p].pc = "done" /\ inv[p].action = Some("EmulatorStop") /\ inv[p].result[1].ok

\* C9: no two actions that target the same component are in flight at the
\* same time.
C9_OneInFlightPerComponent ==
  \A p, q \in Procs :
    (p # q /\ InFlight(p) /\ InFlight(q)) => Target(Action(p)) # Target(Action(q))

\* C10: right after update_status(kind, phase, msg) the status snapshot
\* holds one entry for kind, with that phase, and with msg as last_message
\* when msg is Some and the last_message of before the call when it is None.
C10_UpdateThenSnapshot ==
  [][\A c \in Callers :
       (callers[c].pc = "idle" /\ callers'[c].pc = "status_emit") =>
         LET kind == callers'[c].kind[1]
             phase == callers'[c].phase[1]
             msg == callers'[c].message
             before == IF kind \in DOMAIN statuses
                       THEN statuses[kind].last_message ELSE None
             entries == {e \in StatusesSnapshot(statuses') : e.kind = kind}
         IN  /\ Cardinality(entries) = 1
             /\ \A e \in entries :
                  /\ e.phase = phase
                  /\ e.last_message = IF msg # None THEN msg ELSE before
             /\ callers'[c].snapshot[1] \in entries]_vars

\* C10 witness: update_status with no message has just run on an entry
\* that had a message
C10_UpdatedWithoutMessage ==
  \E c \in Callers :
    /\ callers[c].pc = "status_emit"
    /\ callers[c].message = None
    /\ callers[c].prev # None
    /\ callers[c].prev[1].last_message # None
    /\ callers[c].prev[1].phase # callers[c].phase[1]

\* C11: in every reachable state the status table holds exactly one entry
\* for Emulator and one for Maa, each under its own kind, and before the
\* first update the phases are Emulator = Stopped and Maa = Idle.
C11_OneEntryPerKind ==
  /\ DOMAIN statuses = {"Emulator", "Maa"}
  /\ \A k \in DOMAIN statuses : statuses[k].kind = k
  /\ Cardinality(StatusesSnapshot(statuses)) = 2
  /\ calls = 0 => /\ statuses["Emulator"].phase = "Stopped"
                  /\ statuses["Maa"].phase = "Idle"

\* C11 witness: concurrent update_status calls have rewritten both entries
C11_BothEntriesUpdated ==
  /\ calls = MaxUpdates
  /\ statuses["Emulator"].phase \notin {"Stopped", "Unknown"}
  /\ statuses["Maa"].phase \notin {"Idle", "Unknown"}
  /\ \E c \in Callers : callers[c].pc = "status_emit"

\* the last command p tried to start could not be spawned: line 592 ran
\* "false" for its exit status
SpawnFailed(p) ==
  /\ inv[p].children # <<>>
  /\ inv[p].children[Len(inv[p].children)].program = <<"false">>
  /\ ~inv[p].children[Len(inv[p].children) - 1].spawned

\* C12: when the program, sudo or pkexec cannot be spawned,
\* run_configured_command still returns Ok, with an outcome that has
\* success = false, a non-zero exit code, an empty stdout and a stderr that
\* describes the failure; a spawn failure never becomes Err.
C12_SpawnFailureIsAnOutcome ==
  \A p \in Procs :
    (PastExec(p) /\ SpawnFailed(p)) =>
      /\ inv[p].outcome # None
      /\ ~inv[p].outcome[1].success
      /\ inv[p].outcome[1].exit_code # 0
      /\ inv[p].outcome[1].stdout = <<>>
      /\ Contains(inv[p].outcome[1].stderr, <<"Failed">>)

\* C13: when the blocking worker task crashes, the handler goes on: it gets
\* Err with the error text, sets the target's phase to Error with that
\* text, appends an Error log entry with that text, and returns Err with it.
C13_WorkerCrashIsReported ==
  \A p \in Procs :
    inv[p].crashed =>
      LET text == inv[p].result[1].value
          target == C8_Mapping[Action(p)].kind
          wrote == inv[p].wrote
          logged == inv[p].logged
      IN  /\ inv[p].pc \in {"err_status", "err_log", "done"}
          /\ inv[p].outcome = None
          /\ ~inv[p].result[1].ok
          /\ Contains(text, <<"crashed:">>)
          /\ inv[p].pc \in {"err_log", "done"} =>
               /\ wrote[Len(wrote)] = [kind |-> target, phase |-> "Error", message |-> text]
               /\ statuses[target].phase = "Error"
               /\ statuses[target].last_message = Some(text)
               /\ statusEvents[Len(statusEvents)] = statuses[target]
          /\ inv[p].pc = "done" =>
               /\ logged[Len(logged)] = [level |-> "Error", message |-> text]
               /\ \E i \in DOMAIN logs :
                    logs[i].level = "Error" /\ logs[i].message = text

\* C13 witness: run_maa_startup has returned after its worker crashed
C13_MaaCrashReturned ==
  \E p \in Procs :
    /\ inv[p].crashed
    /\ inv[p].pc = "done"
    /\ inv[p].action = Some("MaaStartup")

\* C14: an entry point returns Ok(outcome) exactly when the command's
\* outcome has success = true and Err(message) otherwise, and the result
\* agrees with the last status the action wrote: Ok iff it was the action's
\* success phase, Err iff it was Error.
C14_ResultAgreesWithStatus ==
  \A p \in Procs :
    inv[p].pc = "done" =>
      LET result == inv[p].result[1]
          m == C8_Mapping[Action(p)]
          last == inv[p].wrote[Len(inv[p].wrote)]
      IN  /\ result.ok <=> (inv[p].outcome # None /\ inv[p].outcome[1].success)
          /\ result.ok => result.value = inv[p].outcome[1]
          /\ ~result.ok => (result.value \in Seq(STRING) /\ result.value = last.message)
          /\ last.kind = m.kind
          /\ result.ok <=> last.phase = m.success
          /\ ~result.ok <=> last.phase = "Error"
          /\ statuses[m.kind].phase = last.phase

\* C14 witness: an entry point has returned Err for a command that a signal
\* ended (no exit code)
C14_KilledReturnedErr ==
  \E p \in Procs :
    /\ inv[p].pc = "done"
    /\ ~inv[p].result[1].ok
    /\ inv[p].outcome # None
    /\ inv[p].outcome[1].exit_code = -1

\* C15: every CommandOutcome of the executor has success = true exactly
\* when its exit_code is 0; this holds for the outcome made up after a spawn
\* failure and for a child that ended without an exit code (reported as -1).
C15_SuccessIffExitCodeZero ==
  \A p \in Procs :
    inv[p].outcome # None =>
      /\ inv[p].outcome[1].success <=> inv[p].outcome[1].exit_code = 0
      /\ inv[p].output[1].code = None => inv[p].outcome[1].exit_code = -1
      /\ SpawnFailed(p) => ~inv[p].outcome[1].success

\* C15 witness: the executor returned the outcome of a child that a signal
\* ended
C15_OutcomeWithoutExitCode ==
  \E p \in Procs :
    /\ inv[p].outcome # None
    /\ inv[p].output[1].code = None
    /\ ~inv[p].outcome[1].success

\* how often e occurs in the sequence s
Count(s, e) == Cardinality({i \in DOMAIN s : s[i] = e})

\* every entry pushed so far was published once, or its push_log call is
\* about to publish it; when no call is under way, every call has published
C16_Published ==
  /\ \A i \in DOMAIN pushed :
       Count(pushed, pushed[i]) =
         Count(logEvents, pushed[i])
           + Cardinality({c \in Callers : /\ callers[c].pc = "push_emit"
                                          /\ callers[c].entry = Some(pushed[i])})
  /\ Len(logEvents) + Cardinality({c \in Callers : callers[c].pc = "push_emit"}) = Len(pushed)
  /\ (\A c \in Callers : callers[c].pc \in {"idle", "logs_fetched", "status_fetched"}) =>
       Len(logEvents) + Len(statusEvents) = calls

\* a call publishes when it leaves its emit, whatever the emit returned:
\* update_status the snapshot it returns, push_log the entry it stored; the
\* table and the buffer stay as they are, the call ends, and nothing else
\* publishes
C16_EmitStep ==
  /\ \A c \in Callers :
       (callers[c].pc = "status_emit" /\ callers'[c] # callers[c]) =>
          /\ statusEvents' = Append(statusEvents, callers[c].snapshot[1])
          /\ callers'[c].pc = "idle"
          /\ UNCHANGED <<logs, statuses, pushed, logEvents>>
  /\ \A c \in Callers :
       (callers[c].pc = "push_emit" /\ callers'[c] # callers[c]) =>
          /\ logEvents' = Append(logEvents, callers[c].entry[1])
          /\ callers'[c].pc = "idle"
          /\ UNCHANGED <<logs, statuses, pushed, statusEvents>>
  /\ \A c \in Callers :
       (callers[c].pc = "idle" /\ callers'[c].pc = "status_emit") =>
          callers'[c].snapshot = Some(statuses'[callers'[c].kind[1]])
  /\ statusEvents' # statusEvents =>
       \E c \in Callers : callers[c].pc = "status_emit" /\ callers'[c].pc = "idle"
  /\ logEvents' # logEvents =>
       \E c \in Callers : callers[c].pc = "push_emit" /\ callers'[c].pc = "idle"

\* C16: every update_status call publishes the snapshot it returns on the
\* status channel and every push_log call publishes the entry it stored on
\* the log channel, exactly once each; what the emit returns is ignored: it
\* changes neither the stored state nor the way the call ends.
C16_PublishedExactlyOnce == [](C16_Published) /\ [][C16_EmitStep]_vars

\* C16 witness: a push_log and an update_status call ran concurrently and
\* both have published
C16_BothChannelsPublished ==
  /\ \A c \in Callers : callers[c].pc = "idle"
  /\ Len(logEvents) = 1
  /\ Len(statusEvents) = 1
  /\ calls = 2

\* the calls of spawn_notification an invocation has made fit its action
\* and where it is: none for the emulator actions; for MaaStartup one at its
\* start, and a second one only when the command has succeeded
C17_Notified ==
  /\ \A p \in Procs :
       inv[p].action # None =>
         LET n == Len(inv[p].notified)
         IN  /\ Action(p) # "MaaStartup" => n = 0
             /\ n <= 2
             /\ n >= 1 => inv[p].notified[1] = <<"MAA", " ", "service", " ", "starting">>
             /\ n >= 1 <=> (Action(p) = "MaaStartup"
                            /\ inv[p].pc \notin {"start_status", "start_log", "notify_start"})
             /\ n = 2 => /\ inv[p].pc = "done"
                         /\ inv[p].result[1].ok
                         /\ inv[p].outcome[1].success
                         /\ inv[p].notified[2] = <<"MAA", " ", "run", " ", "finished">>
             /\ (PastExec(p) /\ (inv[p].crashed \/ ~inv[p].outcome[1].success)) => n <= 1
  /\ ~env.sendkey => tasks = <<>>

\* a notification task is spawned only by a step of MaaStartup, at its start
\* or after its command succeeded
C17_Dispatch ==
  tasks' # tasks /\ Len(tasks') > Len(tasks) =>
    \E p \in Procs :
      /\ inv[p].action = Some("MaaStartup")
      /\ inv'[p] # inv[p]
      /\ \/ inv[p].pc = "notify_start"
         \/ inv[p].pc = "notify_done" /\ inv[p].result[1].ok
      /\ tasks'[Len(tasks')].by = p
      /\ Len(tasks') = Len(tasks) + 1

\* C17: only MaaStartup sends a notification, and only at its start and
\* after its command succeeded; EmulatorStart and EmulatorStop never notify,
\* and nothing is sent after a failed command or an executor error.
C17_NotifyOnlyAroundMaa == [](C17_Notified) /\ [][C17_Dispatch]_vars

\* C17 witness: with SENDKEY set, run_maa_startup has returned Err after a
\* failed command, and one notification was dispatched
C17_MaaFailedNotifiedOnce ==
  \E p \in Procs :
    /\ env.sendkey
    /\ inv[p].pc = "done"
    /\ inv[p].action = Some("MaaStartup")
    /\ inv[p].outcome # None
    /\ ~inv[p].outcome[1].success
    /\ Len(tasks) = 1

\* what run_maa_startup returns and the phases it writes are given by what
\* its worker did alone, whether notifications are sent, pending, failed or
\* never spawned
C18_Determined ==
  \A p \in Procs :
    (inv[p].pc = "done" /\ inv[p].action = Some("MaaStartup")) =>
      LET success == ~inv[p].crashed /\ inv[p].output[1].code = Some(0)
          phases == [i \in DOMAIN inv[p].wrote |-> inv[p].wrote[i].phase]
      IN  /\ inv[p].result[1].ok = success
          /\ phases = IF success THEN <<"Running", "Idle">> ELSE <<"Running", "Error">>
          /\ statuses["Maa"].phase = phases[2]
          /\ success => inv[p].result[1].value = Outcome(CmdSpec(p), inv[p].output[1])
          /\ ~success => inv[p].result[1].value = inv[p].wrote[2].message

\* the end of a notification, sent or failed, adds one log entry, Info when
\* sent and Warn when failed, and touches neither the invocations nor the
\* status table
C18_TaskStep ==
  \A i \in DOMAIN tasks :
    (i \in DOMAIN tasks' /\ tasks'[i].pc # tasks[i].pc) =>
      /\ inv' = inv
      /\ statuses' = statuses
      /\ statusEvents' = statusEvents
      /\ Len(pushed') = Len(pushed) + 1
      /\ LET entry == pushed'[Len(pushed')]
         IN  \/ entry.level = "Info" /\ Contains(entry.message, tasks[i].desp)
             \/ entry.level = "Warn" /\ Contains(entry.message, <<"failed:">>)

\* C18: the outcome of a notification is isolated from the action: sent,
\* failed, pending or never spawned, run_maa_startup returns the same result
\* and writes the same phases; a failed notification only adds a Warn log
\* entry.
C18_NotificationIsolated == [](C18_Determined) /\ [][C18_TaskStep]_vars

\* C18 witness: run_maa_startup returned Ok while its first notification
\* had failed and its second one is still pending
C18_FailedAndPendingNotifications ==
  \E p \in Procs :
    /\ inv[p].pc = "done"
    /\ inv[p].action = Some("MaaStartup")
    /\ inv[p].result[1].ok
    /\ Len(tasks) = 2
    /\ tasks[1].pc = "done"
    /\ tasks[2].pc = "sending"
    /\ \E j \in DOMAIN logs : logs[j].level = "Warn" /\ Contains(logs[j].message, <<"failed:">>)

\* a snapshot that a query holds, taken after as many writes as there are
\* now, is what the same query returns now
C19_SnapshotsRepeat ==
  \A c \in Callers :
    /\ (callers[c].pc = "logs_fetched" /\ callers[c].writes = Len(pushed)) =>
         callers[c].snapshot = Some(LogsSnapshot(logs))
    /\ (callers[c].pc = "status_fetched" /\ callers[c].writes = StatusWrites) =>
         callers[c].snapshot = Some(StatusesSnapshot(statuses))

\* the step of a query leaves the buffer, the table and both channels as
\* they are, and returns what they hold
C19_QueryStep ==
  \A c \in Callers :
    (callers[c].pc = "idle" /\ callers'[c].pc \in {"logs_fetched", "status_fetched"}) =>
      /\ UNCHANGED <<logs, statuses, pushed, logEvents, statusEvents>>
      /\ callers'[c].pc = "logs_fetched" => callers'[c].snapshot = Some(LogsSnapshot(logs'))
      /\ callers'[c].pc = "status_fetched" =>
           callers'[c].snapshot = Some(StatusesSnapshot(statuses'))

\* C19: the status snapshot and the log snapshot do not change the state:
\* the buffer and the table are the same before and after a query, and two
\* snapshots with no update_status or push_log between them are equal.
C19_QueriesDoNotMutate == [](C19_SnapshotsRepeat) /\ [][C19_QueryStep]_vars

\* C19 witness: two queries hold log snapshots of a buffer that is not
\* empty, with no write between them
C19_TwoSnapshotsHeld ==
  /\ \A c \in Callers : callers[c].pc = "logs_fetched" /\ callers[c].writes = Len(pushed)
  /\ logs # <<>>

\* C20: for any action, before the command is executed the target's status
\* is updated to the start phase with the message "<label> executing", and
\* then an Info log entry that names the label and the full command line
\* (program and args) is appended; both come before the executor starts.
C20_StartTrail ==
  \A p \in Procs :
    (inv[p].pc \in {"exec", "pkexec"} \/ PastExec(p)) =>
      LET m == C8_Mapping[Action(p)]
          spec == CmdSpec(p)
          line == IF spec.args = <<>> THEN spec.program
                  ELSE spec.program \o <<" ">> \o JoinArgs(spec.args)
      IN  /\ inv[p].wrote[1] =
               [kind |-> m.kind, phase |-> m.start,
                message |-> spec.label \o <<" ", "executing">>]
          /\ inv[p].logged[1].level = "Info"
          /\ Contains(inv[p].logged[1].message, spec.label)
          /\ Contains(inv[p].logged[1].message, line)
          /\ inv[p].pc = "exec" =>
               (Len(inv[p].wrote) = 1 /\ Len(inv[p].logged) = 1 /\ inv[p].children = <<>>)

\* C21: on the success path of any action, after the completion entry, a
\* stdout that is not empty is logged at Info and a stderr that is not empty
\* at Warn, and an empty stream gives no entry at all.
C21_SuccessTrail ==
  \A p \in Procs :
    (inv[p].pc = "done" /\ inv[p].result[1].ok) =>
      LET outcome == inv[p].outcome[1]
          logged == inv[p].logged
          out == IF outcome.stdout = <<>> THEN <<>>
                 ELSE <<[level |-> "Info", message |-> <<"[STDOUT]", " ">> \o outcome.stdout]>>
          err == IF outcome.stderr = <<>> THEN <<>>
                 ELSE <<[level |-> "Warn", message |-> <<"[STDERR]", " ">> \o outcome.stderr]>>
      IN  /\ Len(logged) = 2 + Len(out) + Len(err)
          /\ logged[2] = [level |-> "Info", message |-> outcome.label \o <<" ", "done">>]
          /\ SubSeq(logged, 3, Len(logged)) = out \o err

RECURSIVE IsSubSeq(_, _)
\* the elements of a occur in b, in the order of a
IsSubSeq(a, b) ==
  IF a = <<>> THEN TRUE
  ELSE IF b = <<>> THEN FALSE
  ELSE IF Head(a) = Head(b) THEN IsSubSeq(Tail(a), Tail(b))
  ELSE IsSubSeq(a, Tail(b))

\* the level and message of each entry of the buffer
LogLines(buf) == [i \in DOMAIN buf |-> [level |-> buf[i].level, message |-> buf[i].message]]

\* the place of an entry in the program order of an action: the executing
\* entry, the completion or failure message, the STDOUT and the STDERR section
LogRank(line) ==
  CASE Head(line.message) \in {"exec", "begin"} -> 1
    [] Head(line.message) = "[STDOUT]" -> 3
    [] Head(line.message) = "[STDERR]" -> 4
    [] OTHER -> 2

\* the entries of each invocation are in the buffer, in its program order
C22_InProgramOrder ==
  \A p \in Procs :
    /\ IsSubSeq(inv[p].logged, LogLines(logs))
    /\ \A i, j \in DOMAIN inv[p].logged :
         i < j => LogRank(inv[p].logged[i]) < LogRank(inv[p].logged[j])

\* an entry that an invocation logs goes behind everything the buffer holds
C22_LogStep ==
  \A p \in Procs :
    (inv'[p].action = inv[p].action /\ Len(inv'[p].logged) > Len(inv[p].logged)) =>
      /\ Len(logs') = Len(logs) + 1
      /\ SubSeq(logs', 1, Len(logs)) = logs
      /\ LogLines(logs')[Len(logs')] = inv'[p].logged[Len(inv'[p].logged)]

\* C22: also when several actions and notification tasks run concurrently,
\* the log entries of one invocation are in the buffer in the program order
\* of its action (executing, completion or failure, STDOUT, STDERR): entries
\* of others may come between them, but they are never reordered.
C22_ActionLogOrder == [](C22_InProgramOrder) /\ [][C22_LogStep]_vars

\* C22 witness: the entries of two concurrent actions and of a notification
\* task are interleaved in the buffer
C22_Interleaved ==
  /\ inv[1].pc = "done" /\ inv[2].pc = "done"
  /\ inv[1].action # inv[2].action
  /\ Len(inv[1].logged) >= 2 /\ Len(inv[2].logged) >= 2
  /\ \E i, j, k, l \in DOMAIN logs :
       /\ i < j /\ j < k /\ k < l
       /\ LogLines(logs)[i] = inv[1].logged[1]
       /\ LogLines(logs)[j] = inv[2].logged[1]
       /\ Head(logs[k].message) = "push"
       /\ LogLines(logs)[l] = inv[1].logged[2]

\* the child processes that the execution of p started
SpawnedChildren(p) == SelectSeq(inv[p].children, LAMBDA c : c.spawned)

\* C23: one execution of a command spawns one or two child processes: one,
\* the program, on the direct path; on the escalation path one sudo and then
\* at most one pkexec; also when a spawn attempt fails.
C23_OneOrTwoChildren ==
  \A p \in Procs :
    PastExec(p) =>
      LET kids == SpawnedChildren(p)
      IN  IF NeedsEscalation(CmdSpec(p), env.root)
          THEN /\ Len(kids) \in 1..2
               /\ kids[1].program = <<"sudo">>
               /\ Len(kids) = 2 => kids[2].program = <<"pkexec">>
          ELSE /\ Len(kids) = 1
               /\ kids[1].program = CmdSpec(p).program

\* the phases in which a component rests
RestPhases(kind) ==
  IF kind = "Emulator" THEN {"Stopped", "Running", "Error"} ELSE {"Idle", "Error"}

\* no action on this component is between its first and its last status update
Quiescent(kind) ==
  \A p \in Procs : InFlight(p) => Target(Action(p)) # kind

\* C24: whenever no action that targets a component is in flight, also after
\* concurrent actions on it interleaved, the component is in no transitional
\* phase: the emulator is Stopped, Running or Error, MAA is Idle or Error;
\* and the phase Unknown is never seen, in the table or in an event.
C24_QuiescentPhases ==
  /\ \A kind \in SoftwareKind :
       /\ statuses[kind].phase # "Unknown"
       /\ Quiescent(kind) => statuses[kind].phase \in RestPhases(kind)
  /\ \A i \in DOMAIN statusEvents : statusEvents[i].phase # "Unknown"

\* C24 witness: a start and a stop of the emulator overlapped (both wrote
\* their transitional phase before either wrote its last one) and both returned
C24_OverlappedThenQuiet ==
  /\ inv[1].pc = "done" /\ inv[2].pc = "done"
  /\ Target(Action(1)) = "Emulator" /\ Target(Action(2)) = "Emulator"
  /\ \E i \in DOMAIN statusEvents :
       /\ i + 1 \in DOMAIN statusEvents
       /\ {statusEvents[i].phase, statusEvents[i + 1].phase} = {"Starting", "Stopping"}

\* the last event published for a component, if there is one
LastStatusEvent(kind) ==
  LET of == SelectSeq(statusEvents, LAMBDA e : e.kind = kind)
  IN  IF of = <<>> THEN None ELSE Some(of[Len(of)])

\* C25: events are published in the order of the state changes they report:
\* the log events come in the order in which their entries were put into the
\* buffer, and once all operations have completed the last status event of
\* each component is the status the table holds for it.
C25_EventsInStateOrder ==
  /\ IsSubSeq(logEvents, pushed)
  /\ (\A c \in Callers : callers[c].pc = "idle") =>
       \A kind \in SoftwareKind :
         LastStatusEvent(kind) # None => LastStatusEvent(kind) = Some(statuses[kind])

\* C26: with a clock that never goes back, the entries of the log buffer are
\* in non-decreasing order of timestamp_ms in every reachable state, also
\* when push_log calls run concurrently.
C26_TimestampsAscend ==
  \A i, j \in DOMAIN logs : i < j => logs[i].timestamp_ms <= logs[j].timestamp_ms

\* p has written its success phase or Error to its target as its last write
FinalWritten(p) ==
  /\ inv[p].wrote # <<>>
  /\ LET last == inv[p].wrote[Len(inv[p].wrote)]
     IN  /\ last.kind = Target(Action(p))
         /\ last.phase \in {SuccessPhase(Action(p)), "Error"}

\* C27: when every child process exits and the scheduler is fair, every
\* invoked action returns to its caller, and when it returns its last write
\* to its target is its success phase or Error, never only its start phase.
C27_EveryActionReturns ==
  /\ [](\A p \in Procs :
          inv[p].pc = "done" => inv[p].result # None /\ FinalWritten(p))
  /\ \A p \in Procs :
       (inv[p].pc \notin {"idle", "done"}) ~> (inv[p].pc = "done" /\ FinalWritten(p))

\* C27 witness: two concurrent actions have returned, one after sudo and a
\* dismissed pkexec with Error written, one with its success phase written
C27_BothReturned ==
  /\ inv[1].pc = "done" /\ inv[2].pc = "done"
  /\ HasChild(1, <<"pkexec">>)
  /\ ~inv[1].result[1].ok
  /\ inv[1].wrote[Len(inv[1].wrote)].phase = "Error"
  /\ inv[2].result[1].ok
  /\ inv[2].wrote[Len(inv[2].wrote)].phase = SuccessPhase(Action(2))
  /\ \E i \in DOMAIN statusEvents :
       /\ i + 1 \in DOMAIN statusEvents
       /\ statusEvents[i].phase = StartPhase(Action(1))
       /\ statusEvents[i + 1].phase = StartPhase(Action(2))

=============================================================================
